---- MODULE Spec2Model ----
(***************************************************************************)
(* PDFFeatureLoader (src/pdf_utils.py) and FeatureEngine (src/main.py):    *)
(* the JSON cache keyed on file modification times, the row parser, the    *)
(* lazily built index and the query path.                                  *)
(*                                                                         *)
(* A Python str is modelled as a sequence of one-character strings, so     *)
(* that `in`, split and strip are computed as Python computes them.        *)
(***************************************************************************)
EXTENDS Integers, Sequences, FiniteSets, TLC

\* ------------------------------------------------------------------ bounds
\* Largest value of the clock and of a file modification time. The clock
\* starts at 1: every file there is has a modification time above 0, the value
\* _get_file_mtime gives for a missing file.
MaxTime == 2
\* Longest source document (in rows) of the parser specification.
MaxRows == 2
\* Table rows that fit on one page of the generated feature dictionary.
RowsPerPage == 40
\* Rows of a feature dictionary cut short (more than the k of a query).
ExcerptRows == 11
\* File operations of other processes that may fall inside one call of the
\* loader.
MaxRaces == 1

\* ------------------------------------------------------- program constants
\* search_similar_features(query, k=10); FeatureEngine passes k=10.
DefaultK == 10
\* while count < 1500
NumFeatures == 1500

\* ----------------------------------------------------------- Python str
\* s[i:i+len(p)] == p
MatchAt(s, p, i) ==
    /\ i + Len(p) - 1 <= Len(s)
    /\ \A j \in 1..Len(p) : s[i + j - 1] = p[j]

\* the first position in lo..hi where p occurs in s, else 0
FindIn(s, p, lo, hi) ==
    IF \E i \in lo..hi : MatchAt(s, p, i)
    THEN CHOOSE i \in lo..hi : MatchAt(s, p, i) /\ \A j \in lo..(i - 1) : ~MatchAt(s, p, j)
    ELSE 0

\* s.find(p) + 1, and 0 when p is not in s
Find(s, p) == FindIn(s, p, 1, Len(s) - Len(p) + 1)

\* p in s
Contains(s, p) == Find(s, p) # 0

\* s.split(sep): the parts between the occurrences of sep that Python's scan
\* from the left cuts at (leftmost first, none overlapping another); always
\* >= 1 part. The scan cuts at an occurrence that no occurrence starting
\* before it overlaps, so s is cut at the first occurrence p in its right half
\* when that is one, and at its leftmost occurrence otherwise (which is in the
\* left half when the right half has none, and at or before p when it has).
RECURSIVE Split(_, _)
Split(s, sep) ==
    LET n == Len(sep)
        p == FindIn(s, sep, (Len(s) \div 2) + 1, Len(s) - n + 1)
        alone == \A d \in 1..(n - 1) : p - d >= 1 => ~MatchAt(s, sep, p - d)
        i == IF p # 0 /\ alone THEN p ELSE FindIn(s, sep, 1, IF p = 0 THEN Len(s) \div 2 ELSE p)
    IN  IF i = 0 THEN <<s>>
        ELSE Split(SubSeq(s, 1, i - 1), sep) \o Split(SubSeq(s, i + n, Len(s)), sep)

\* s.split(sep, 1) for a sep that occurs in s: <<before, after>>
SplitOnce(s, sep) ==
    LET i == Find(s, sep) IN
    <<SubSeq(s, 1, i - 1), SubSeq(s, i + Len(sep), Len(s))>>

\* the characters str.strip() removes: those str.isspace() holds of
Whitespace ==
    {"\t", "\n", "\\x0b", "\f", "\r", "\\x1c", "\\x1d", "\\x1e", "\\x1f", " ",
     "\\x85", "\\xa0", "\\u1680", "\\u2000", "\\u2001", "\\u2002", "\\u2003",
     "\\u2004", "\\u2005", "\\u2006", "\\u2007", "\\u2008", "\\u2009", "\\u200a",
     "\\u2028", "\\u2029", "\\u202f", "\\u205f", "\\u3000"}

\* s.strip()
RECURSIVE LStrip(_)
LStrip(s) == IF s # <<>> /\ Head(s) \in Whitespace THEN LStrip(Tail(s)) ELSE s
RECURSIVE RStrip(_)
RStrip(s) ==
    IF s # <<>> /\ s[Len(s)] \in Whitespace THEN RStrip(SubSeq(s, 1, Len(s) - 1)) ELSE s
Strip(s) == RStrip(LStrip(s))

\* the literals of the parser
IdMarker == <<"I", "D", ":", " ">>
FieldSep == <<" ", "|", " ">>
Colon == <<":">>
Newline == <<"\n">>
KeyID == <<"I", "D">>
KeyCAT == <<"C", "A", "T">>
KeyDESC == <<"D", "E", "S", "C">>
KeyVAL == <<"V", "A", "L">>
PdfPath == "featurelist.pdf"

\* A string value is written as Python's ascii() writes the str: a character
\* that is not printable ASCII, other than \t \n \r \f, is its escape \xhh or
\* \uhhhh (a str holding a backslash before x or u has no such writing).
\* The pieces of the writing of str, one character of the writing each, as a
\* sequence.
Pieces(str) == SubSeq([i \in 1..Len(str) |-> SubSeq(str, i, i)], 1, Len(str))

\* the length of the writing of the character written from piece i of w on
CharLen(w, i) ==
    IF w[i] # "\\" \/ i = Len(w) THEN 1
    ELSE IF w[i + 1] = "u" THEN 6
    ELSE IF w[i + 1] = "x" THEN 4
    ELSE 1

\* piece i of w is where a character starts, not the inside of an escape
StartsChar(w, i) ==
    \A j \in 1..5 : i - j >= 1 => CharLen(w, i - j) <= j

\* the pieces of a character put together
RECURSIVE Join(_)
Join(w) == IF w = <<>> THEN "" ELSE Head(w) \o Join(Tail(w))

\* the character an escape writes: the four that a string here holds as they
\* are have one writing
Written(c) ==
    CASE c = "\\x09" -> "\t"
      [] c = "\\x0a" -> "\n"
      [] c = "\\x0c" -> "\f"
      [] c = "\\x0d" -> "\r"
      [] OTHER -> c

\* the characters of a string value
Chars(str) ==
    LET w == Pieces(str)
        starts == SelectSeq([i \in 1..Len(w) |-> i], LAMBDA i : StartsChar(w, i))
    IN  [k \in 1..Len(starts) |->
            IF CharLen(w, starts[k]) = 1 THEN w[starts[k]]
            ELSE Written(Join(SubSeq(w, starts[k], starts[k] + CharLen(w, starts[k]) - 1)))]

\* a character sequence as a string value (the values a Document carries)
RECURSIVE Str(_)
Str(s) ==
    IF s = <<>> THEN ""
    ELSE IF Len(s) = 1 THEN s[1]
    ELSE LET half == Len(s) \div 2 IN
         Str(SubSeq(s, 1, half)) \o Str(SubSeq(s, half + 1, Len(s)))

\* dict.get(key, default) on a mapping modelled as a function
Get(d, key, default) == IF key \in DOMAIN d THEN d[key] ELSE default

\* d[key] = val
Put(d, key, val) == [x \in (DOMAIN d) \cup {key} |-> IF x = key THEN val ELSE d[x]]

EmptyDict == [x \in {} |-> x]

\* for p in parts: if ":" in p: key, val = p.split(":", 1); meta[key.strip()] = val.strip()
RECURSIVE ParseParts(_, _)
ParseParts(parts, meta) ==
    IF parts = <<>> THEN meta
    ELSE LET p == Head(parts)
             kv == SplitOnce(p, Colon)
         IN  ParseParts(Tail(parts),
                        IF Contains(p, Colon)
                        THEN Put(meta, Strip(kv[1]), Str(Strip(kv[2])))
                        ELSE meta)

\* the Document built from one matching line
LineDocument(line) ==
    LET meta == ParseParts(Split(line, FieldSep), EmptyDict) IN
    [page_content |-> Str(line),
     metadata |-> [source |-> PdfPath,
                   feature_name |-> Get(meta, KeyID, "Unknown"),
                   category |-> Get(meta, KeyCAT, ""),
                   description |-> Get(meta, KeyDESC, ""),
                   value |-> Get(meta, KeyVAL, "0")]]

\* mutant of LineMatches: the " | " test is dropped
LineMatchesIdOnly(line) == Contains(line, IdMarker)

\* if "ID: " in line and " | " in line
LineMatches(line) == Contains(line, IdMarker) /\ Contains(line, FieldSep)

\* for line in lines: ... documents.append(doc)
ParseLines(lines) ==
    LET matching == SelectSeq(lines, LineMatches) IN
    [i \in 1..Len(matching) |-> LineDocument(matching[i])]

\* ------------------------------------------------------ source documents
\* The lines a page may hold, beside the generator's rows: the generator's
\* title and table header, rows in its format and lines that depart from it.
RowIds ==
    {"full", "short", "no_colon", "reordered", "colon_in_value", "other_key",
     "no_separator", "no_id", "id_no_space", "padded", "title", "header"}

HandLine(r) ==
    CASE r = "full" -> "ID: f1 | CAT: c1 | DESC: d1 | VAL: 42"
      [] r = "short" -> "ID: f2 | VAL: 7"
      [] r = "no_colon" -> "ID: f3 | c3 | VAL: 5"
      [] r = "reordered" -> "VAL: 9 | ID: f4"
      [] r = "colon_in_value" -> "ID: a:b |  CAT : c5 "
      [] r = "other_key" -> "XID: f6 | VAL: 2"
      [] r = "no_separator" -> "ID: f7"
      [] r = "no_id" -> "CAT: c8 | VAL: 1"
      [] r = "id_no_space" -> "ID:f9 | VAL: 3"
      [] r = "padded" -> "\\x0bID: \tf5\\u3000 | \\x85VAL\\x1c:\r8\\xa0\f"
      [] r = "title" -> "Marketing Feature Dictionary"
      [] r = "header" -> "Feature Info"

\* random.choice(list(categories.keys())), random.choice(categories[cat]): the
\* pairs the generator draws from here
Choices ==
    <<[cat |-> "Device & Tech", feat_base |-> "Device Age"],
      [cat |-> "Device & Tech", feat_base |-> "OS Version"],
      [cat |-> "Marketing Reaction", feat_base |-> "Fatigue Level"]>>

\* the runs of the generator: a seed fixes its random draws
Seeds == {0, 1}
Choice(seed, count) == Choices[((count + seed) % Len(Choices)) + 1]
\* str(random.randint(0, 100))
Value(seed, count) == ToString((7 * count + 13 * seed) % 101)

\* f"{count:03d}"
Format03d(count) ==
    IF count < 10 THEN "00" \o ToString(count)
    ELSE IF count < 100 THEN "0" \o ToString(count)
    ELSE ToString(count)

\* feat_name = f"{feat_base} #{count:03d}"
FeatName(seed, count) == Choice(seed, count).feat_base \o " #" \o Format03d(count)

\* desc = f"{cat} 카테고리의 {feat_base} 분석 지표"
Desc(seed, count) ==
    Choice(seed, count).cat \o " \\uce74\\ud14c\\uace0\\ub9ac\\uc758 "
        \o Choice(seed, count).feat_base \o " \\ubd84\\uc11d \\uc9c0\\ud45c"

\* row_text = f"ID: {feat_name} | CAT: {cat} | DESC: {desc} | VAL: {value}"
RowLine(seed, count) ==
    "ID: " \o FeatName(seed, count) \o " | CAT: " \o Choice(seed, count).cat
        \o " | DESC: " \o Desc(seed, count) \o " | VAL: " \o Value(seed, count)

\* A line of a page: one of RowIds, or row count of the generator's run seed.
Line(r) == [id |-> r, seed |-> 0, count |-> 0]
GeneratedRow(seed, count) == [id |-> "generated", seed |-> seed, count |-> count]
RowText(row) ==
    IF row.id = "generated" THEN Chars(RowLine(row.seed, row.count))
    ELSE Chars(HandLine(row.id))

\* the text PdfReader extracts from a page holding the rows rs, one per line
RECURSIVE PageText(_)
PageText(rs) ==
    IF rs = <<>> THEN <<>>
    ELSE IF Len(rs) = 1 THEN RowText(rs[1])
    ELSE RowText(rs[1]) \o Newline \o PageText(Tail(rs))

\* A page of a readable PDF: its rows, or a page whose extract_text() raises.
Page(rs) == [extractable |-> TRUE, rows |-> rs]
BrokenPage == [extractable |-> FALSE, rows |-> <<>>]
HandPage(ids) == Page([i \in 1..Len(ids) |-> Line(ids[i])])

\* page.extract_text() of an extractable page
ExtractText(page) == PageText(page.rows)

\* raw_text = ""; for page in reader.pages: raw_text += page.extract_text() + "\n"
RECURSIVE RawText(_)
RawText(pages) ==
    IF pages = <<>> THEN <<>>
    ELSE ExtractText(Head(pages)) \o Newline \o RawText(Tail(pages))

\* The content of the file at pdf_path: a PDF of pages, or bytes PdfReader rejects.
Pdf(pages) == [readable |-> TRUE, pages |-> pages]
NotAPdf == [readable |-> FALSE, pages |-> <<>>]

\* Table(data, repeatRows=1): the pages of the table rows from..to, the header
\* row 'Feature Info' on each; the title paragraph is above the table on the
\* first page
RECURSIVE TablePages(_, _, _)
TablePages(seed, from, to) ==
    IF from > to THEN <<>>
    ELSE LET last_row == IF from + RowsPerPage - 1 < to THEN from + RowsPerPage - 1 ELSE to
             rows == [i \in 1..(last_row - from + 1) |-> GeneratedRow(seed, from + i - 1)]
             top == IF from = 1 THEN <<Line("title"), Line("header")>>
                    ELSE <<Line("header")>>
         IN  <<Page(top \o rows)>> \o TablePages(seed, last_row + 1, to)

\* generate_feature_pdf: the document written by a run of the generator
GenerateFeaturePdf(seed) == Pdf(TablePages(seed, 1, NumFeatures))

\* a feature dictionary of the generator's making cut after its first ExcerptRows rows
Excerpt(seed) == Pdf(TablePages(seed, 1, ExcerptRows))

\* The source documents put at pdf_path here: a cut of what the generator
\* writes (the whole of it is a document of ParsedDocuments) and documents
\* made by hand.
SourceDocuments ==
    {Excerpt(0),
     Pdf(<<HandPage(<<"header", "full">>), HandPage(<<"header", "no_colon">>)>>),
     Pdf(<<HandPage(<<"header", "no_id">>)>>),
     Pdf(<<HandPage(<<"full">>), BrokenPage>>),
     NotAPdf}

\* ------------------------------------------------------------ cache file
\* A JSON value as json.load returns it; "invalid" is a file json.load or
\* open() fails on (not JSON, truncated, unreadable).
JsonInvalid == [type |-> "invalid"]
JsonNumber == [type |-> "number"]
JsonObject(members) == [type |-> "object", members |-> members]
JsonArray(items) == [type |-> "array", items |-> items]

\* mutant of SaveItem: the metadata mapping is not written
SaveItemNoMetadata(doc) ==
    JsonObject([page_content |-> doc.page_content, metadata |-> EmptyDict])

\* data.append({"page_content": doc.page_content, "metadata": doc.metadata})
SaveItem(doc) ==
    JsonObject([page_content |-> doc.page_content, metadata |-> doc.metadata])

\* the value _save_to_json dumps for documents
SaveData(documents) ==
    JsonArray([i \in 1..Len(documents) |-> SaveItem(documents[i])])

\* Document(page_content=item.get("page_content", ""), metadata=item.get("metadata", {}))
LoadItem(item) ==
    [page_content |-> Get(item.members, "page_content", ""),
     metadata |-> Get(item.members, "metadata", EmptyDict)]

\* mutant of LoadItems: the documents read before the failing item are returned
LoadItemsPartial(items) ==
    LET bad == {i \in 1..Len(items) : items[i].type # "object"}
        n == IF bad = {} THEN Len(items) ELSE (CHOOSE i \in bad : \A j \in bad : i <= j) - 1
    IN  [ok |-> TRUE, documents |-> [i \in 1..n |-> LoadItem(items[i])]]

\* the for loop of _load_from_json: ok is FALSE when an item has no .get (the
\* exception discards the documents read before it)
LoadItems(items) ==
    IF \E i \in 1..Len(items) : items[i].type # "object"
    THEN [ok |-> FALSE, documents |-> <<>>]
    ELSE [ok |-> TRUE, documents |-> [i \in 1..Len(items) |-> LoadItem(items[i])]]

\* what iterating over json.load's value yields: an array's elements, an
\* object's keys (strings), and a TypeError (ok FALSE) for a number
IterJson(data) ==
    CASE data.type = "array" -> [ok |-> TRUE, items |-> data.items]
      [] data.type = "object" ->
            [ok |-> TRUE,
             items |-> [i \in 1..Cardinality(DOMAIN data.members) |-> [type |-> "string"]]]
      [] OTHER -> [ok |-> FALSE, items |-> <<>>]

\* _load_from_json: every exception gives []
LoadFromJson(file) ==
    IF ~file.exists \/ file.content.type = "invalid" THEN <<>>
    ELSE LET it == IterJson(file.content)
             r == LoadItems(it.items)
         IN  IF it.ok /\ r.ok THEN r.documents ELSE <<>>

\* the ways open(json_path, 'w') / json.dump end
WriteOutcomes == {"written", "open_fails", "dump_fails"}

\* _save_to_json at time t: the file afterwards
SaveToJson(file, documents, t, outcome) ==
    CASE outcome = "written" ->
            [exists |-> TRUE, mtime |-> t, content |-> SaveData(documents)]
      [] outcome = "dump_fails" ->
            [exists |-> TRUE, mtime |-> t, content |-> JsonInvalid]
      [] OTHER -> file

\* ----------------------------------------------------------- file system
NoFile == [exists |-> FALSE]
File(t, content) == [exists |-> TRUE, mtime |-> t, content |-> content]

\* ----------------------------------------------------------------- index
\* self.vector_store: None, or the FAISS index over documents
NoIndex == [built |-> FALSE, documents |-> <<>>]
FaissFromDocuments(documents) == [built |-> TRUE, documents |-> documents]

\* mutant of CacheValid: a cache as old as the source document is stale
CacheValidStrict(pdf_exists, json_exists, pdf_mtime, json_mtime) ==
    pdf_exists /\ json_exists /\ json_mtime > pdf_mtime

\* mutant of CacheValid: the source document is not required to exist
CacheValidNoSource(pdf_exists, json_exists, pdf_mtime, json_mtime) ==
    json_exists /\ json_mtime >= pdf_mtime

\* mutant of CacheValid: the modification times are not compared
CacheValidAnyAge(pdf_exists, json_exists, pdf_mtime, json_mtime) ==
    pdf_exists /\ json_exists

\* os.path.exists(self.pdf_path) and os.path.exists(self.json_path) and
\* json_mtime >= pdf_mtime, on the values the four calls returned
CacheValid(pdf_exists, json_exists, pdf_mtime, json_mtime) ==
    pdf_exists /\ json_exists /\ json_mtime >= pdf_mtime

\* lines 94-126 of load_and_index: open the source document, extract the text
\* of its pages, decode its lines; raised names what raised, if anything
\* (open() of a path that is not there raises FileNotFoundError)
ReadPdf(file) ==
    IF ~file.exists THEN [raised |-> "FileNotFoundError", documents |-> <<>>]
    ELSE IF ~file.content.readable THEN [raised |-> "PdfReader", documents |-> <<>>]
    ELSE IF \E i \in 1..Len(file.content.pages) : ~file.content.pages[i].extractable
    THEN [raised |-> "extract_text", documents |-> <<>>]
    ELSE [raised |-> "none",
          documents |-> ParseLines(Split(RawText(file.content.pages), Newline))]

\* mutant of SavesCache: the cache is saved also when nothing was parsed
SavesCacheAlways(documents) == TRUE

\* if documents: self._save_to_json(documents)
SavesCache(documents) == documents # <<>>

\* mutant of NeedsLoad: load_and_index runs on every query
NeedsLoadAlways(index) == TRUE

\* if not self.vector_store: self.load_and_index()
NeedsLoad(index) == ~index.built

Min(a, b) == IF a <= b THEN a ELSE b

\* The orders in which similarity_search_with_score returns m of n documents
\* for the queries tried: one query is nearest to the first document, one to
\* the last, and the other documents follow the nearest in index order (the
\* distances are the provider's).
Rankings(n, m) ==
    {[i \in 1..m |-> ((s + i - 2) % n) + 1] : s \in {1, n}}

\* The ways the similarity search may end: the provider fails on the query
\* (ranking <<>>), or returns min(k, n) of the n indexed documents in some order.
QueryChoices(index, k) ==
    LET n == Len(index.documents) IN
    {<<FALSE, <<>> >>} \cup {<<TRUE, r>> : r \in Rankings(n, Min(k, n))}

\* results.append({"raw_text": ..., "metadata": ..., "similarity_score": ...});
\* the score of a hit is abstracted to its rank (FAISS returns hits by
\* increasing distance)
SearchResults(documents, ranking) ==
    [i \in 1..Len(ranking) |->
        [raw_text |-> documents[ranking[i]].page_content,
         metadata |-> documents[ranking[i]].metadata,
         similarity_score |-> i]]

\* FeatureEngine.select_features_semantically: one SelectedFeature per hit;
\* reason holds the two values the f-string interpolates
SelectedFeatures(search_results) ==
    [i \in 1..Len(search_results) |->
        LET res == search_results[i]
            meta == res.metadata
        IN  [name |-> "[" \o Get(meta, "category", "") \o "] "
                          \o Get(meta, "feature_name", "Unknown_Feature"),
             reason |-> [description |-> Get(meta, "description", res.raw_text),
                         value |-> Get(meta, "value", "0")],
             similarity_score |-> res.similarity_score]]

\* ----------------------------------------------------------------- state
VARIABLES
    pdf,            \* the file at pdf_path: NoFile or File(mtime, content)
    json,           \* the file at json_path: NoFile or File(mtime, JSON value)
    vector_store,   \* self.vector_store of the current PDFFeatureLoader
    now,            \* the clock that stamps a written file
    pc,             \* where the loader's thread is: "idle" or the call it is at
    last            \* the running or last call of the loader: its local
                    \* variables, the files it started from, its steps and outcome

vars == <<pdf, json, vector_store, now, pc, last>>

\* last when no call runs and none has just returned
NoCall ==
    [op |-> "none", done |-> FALSE, quiet |-> TRUE, races |-> 0,
     pdf |-> NoFile, json |-> NoFile, index |-> NoIndex,
     pdf_mtime |-> 0, json_mtime |-> 0, pdf_exists |-> FALSE,
     documents |-> <<>>, events |-> <<>>, write |-> "none", saved_at |-> 0,
     raised |-> "none", result |-> <<>>, selected |-> <<>>]

\* the call op starts: the files and the index it starts from
Call(op) == [NoCall EXCEPT !.op = op, !.pdf = pdf, !.json = json, !.index = vector_store]

\* the call is over (returned or raised): its frame is gone
Return(l) ==
    [l EXCEPT !.done = TRUE, !.pdf_mtime = 0, !.json_mtime = 0, !.pdf_exists = FALSE]
Raise(l, exception) == Return([l EXCEPT !.raised = exception])

\* load_and_index returns with the index `index`: the direct call is over;
\* search_similar_features goes on, `if not self.vector_store: return []`
PcAfterLoad(l, index) ==
    IF l.op = "search" /\ index.built THEN "similarity_search" ELSE "idle"
LastAfterLoad(l, index) ==
    IF PcAfterLoad(l, index) = "idle" THEN Return(l) ELSE l

\* the step of the loader recorded in events
Event(l, e) == [l EXCEPT !.events = Append(@, e)]

\* ------------------------------------------------------------ the loader
\* feature_engine.select_features_semantically(plan): the call of
\* pdf_loader.search_similar_features(search_query, k=10), up to its first
\* system call
SelectFeatures ==
    /\ pc = "idle"
    /\ pc' = IF NeedsLoad(vector_store) THEN "mtime_pdf_exists" ELSE "similarity_search"
    /\ last' = Call("search")
    /\ UNCHANGED <<pdf, json, vector_store, now>>

\* pdf_loader.load_and_index() called by itself, whatever the index
LoadAndIndex ==
    /\ pc = "idle"
    /\ pc' = "mtime_pdf_exists"
    /\ last' = Call("load_and_index")
    /\ UNCHANGED <<pdf, json, vector_store, now>>

\* _get_file_mtime(self.pdf_path): os.path.exists(filepath)
PdfMtimeExists ==
    /\ pc = "mtime_pdf_exists"
    /\ pc' = IF pdf.exists THEN "mtime_pdf" ELSE "mtime_json_exists"
    /\ last' = [last EXCEPT !.pdf_mtime = 0]
    /\ UNCHANGED <<pdf, json, vector_store, now>>

\* _get_file_mtime(self.pdf_path): os.path.getmtime(filepath)
PdfMtime ==
    /\ pc = "mtime_pdf"
    /\ pc' = IF pdf.exists THEN "mtime_json_exists" ELSE "idle"
    /\ last' = IF pdf.exists THEN [last EXCEPT !.pdf_mtime = pdf.mtime]
               ELSE Raise(last, "FileNotFoundError")
    /\ UNCHANGED <<pdf, json, vector_store, now>>

\* _get_file_mtime(self.json_path): os.path.exists(filepath)
JsonMtimeExists ==
    /\ pc = "mtime_json_exists"
    /\ pc' = IF json.exists THEN "mtime_json" ELSE "valid_pdf_exists"
    /\ last' = [last EXCEPT !.json_mtime = 0]
    /\ UNCHANGED <<pdf, json, vector_store, now>>

\* _get_file_mtime(self.json_path): os.path.getmtime(filepath)
JsonMtime ==
    /\ pc = "mtime_json"
    /\ pc' = IF json.exists THEN "valid_pdf_exists" ELSE "idle"
    /\ last' = IF json.exists THEN [last EXCEPT !.json_mtime = json.mtime]
               ELSE Raise(last, "FileNotFoundError")
    /\ UNCHANGED <<pdf, json, vector_store, now>>

\* line 83, os.path.exists(self.pdf_path)
ValidPdfExists ==
    /\ pc = "valid_pdf_exists"
    /\ pc' = "valid_json_exists"
    /\ last' = [last EXCEPT !.pdf_exists = pdf.exists]
    /\ UNCHANGED <<pdf, json, vector_store, now>>

\* line 83, os.path.exists(self.json_path) and json_mtime >= pdf_mtime (`and`
\* does not evaluate them when the first test failed: the cache file then
\* plays no part in this step)
ValidJsonExists ==
    /\ pc = "valid_json_exists"
    /\ pc' = IF CacheValid(last.pdf_exists, json.exists, last.pdf_mtime, last.json_mtime)
             THEN "load_json" ELSE "pdf_exists"
    /\ last' = [last EXCEPT !.pdf_mtime = 0, !.json_mtime = 0, !.pdf_exists = FALSE]
    /\ UNCHANGED <<pdf, json, vector_store, now>>

\* documents = self._load_from_json()
LoadJson ==
    /\ pc = "load_json"
    /\ LET documents == LoadFromJson(json) IN
        /\ pc' = IF documents # <<>> THEN "build_index" ELSE "pdf_exists"
        /\ last' = Event([last EXCEPT !.documents = documents], "load_json")
    /\ UNCHANGED <<pdf, json, vector_store, now>>

\* if not documents: if not os.path.exists(self.pdf_path): return
PdfExists ==
    /\ pc = "pdf_exists"
    /\ pc' = IF pdf.exists THEN "parse_pdf" ELSE PcAfterLoad(last, vector_store)
    /\ last' = IF pdf.exists THEN last ELSE LastAfterLoad(last, vector_store)
    /\ UNCHANGED <<pdf, json, vector_store, now>>

\* reader = PdfReader(self.pdf_path) ... documents.append(doc), and the test
\* `if documents` of line 128 on the way to _save_to_json or to line 134
ParsePdf ==
    /\ pc = "parse_pdf"
    /\ LET parsed == ReadPdf(pdf)
           l == Event(last, "parse_pdf")
       IN  IF parsed.raised # "none"
           THEN /\ pc' = "idle"
                /\ last' = Raise(l, parsed.raised)
           ELSE LET read == [l EXCEPT !.documents = parsed.documents] IN
                IF SavesCache(parsed.documents)
                THEN /\ pc' = "save_json"
                     /\ last' = read
                ELSE /\ pc' = PcAfterLoad(read, vector_store)
                     /\ last' = LastAfterLoad(read, vector_store)
    /\ UNCHANGED <<pdf, json, vector_store, now>>

\* self._save_to_json(documents), and the test `if documents` of line 134
SaveJson ==
    /\ pc = "save_json"
    /\ \E outcome \in WriteOutcomes :
        LET l == Event([last EXCEPT !.write = outcome, !.saved_at = now], "save_json") IN
        /\ json' = SaveToJson(json, last.documents, now, outcome)
        /\ pc' = IF last.documents # <<>> THEN "build_index"
                 ELSE PcAfterLoad(l, vector_store)
        /\ last' = IF last.documents # <<>> THEN l ELSE LastAfterLoad(l, vector_store)
    /\ UNCHANGED <<pdf, vector_store, now>>

\* self.vector_store = FAISS.from_documents(documents, self.embeddings): the
\* provider embeds the documents, or fails
BuildIndex ==
    /\ pc = "build_index"
    /\ \E embedded \in BOOLEAN :
        IF embedded
        THEN LET index == FaissFromDocuments(last.documents)
                 l == Event(last, "build_index")
             IN  /\ vector_store' = index
                 /\ pc' = PcAfterLoad(l, index)
                 /\ last' = LastAfterLoad(l, index)
        ELSE /\ vector_store' = vector_store
             /\ pc' = "idle"
             /\ last' = Raise(last, "embeddings")
    /\ UNCHANGED <<pdf, json, now>>

\* docs = self.vector_store.similarity_search_with_score(query, k=k), the
\* results made of them and the SelectedFeature list made of the results
SimilaritySearch ==
    /\ pc = "similarity_search"
    /\ \E q \in QueryChoices(vector_store, DefaultK) :
        LET l == Event(last, "similarity_search")
            results == SearchResults(vector_store.documents, q[2])
        IN  /\ pc' = "idle"
            /\ last' = IF q[1]
                       THEN Return([l EXCEPT !.result = results,
                                             !.selected = SelectedFeatures(results)])
                       ELSE Raise(l, "embeddings")
    /\ UNCHANGED <<pdf, json, vector_store, now>>

\* FeatureEngine() in main: a new PDFFeatureLoader, vector_store = None
NewLoader ==
    /\ pc = "idle"
    /\ vector_store' = NoIndex
    /\ last' = NoCall
    /\ UNCHANGED <<pdf, json, now, pc>>

\* ----------------------------------------------------------- environment
\* another process may operate on a file now: no call runs, or fewer than
\* MaxRaces operations fell inside the running call
MayOperate == pc = "idle" \/ last.races < MaxRaces

\* last after a file operation of another process: a call that runs is no
\* longer alone with the files it started from
Disturbed(l) ==
    IF pc = "idle" THEN NoCall
    ELSE [l EXCEPT !.quiet = FALSE, !.races = @ + 1, !.pdf = NoFile, !.json = NoFile]

Tick ==
    /\ now < MaxTime
    /\ now' = now + 1
    /\ last' = IF pc = "idle" THEN NoCall ELSE last
    /\ UNCHANGED <<pdf, json, vector_store, pc>>

\* The source documents the environment puts at pdf_path.
WriteSource ==
    \E doc \in SourceDocuments :
        /\ MayOperate
        /\ pdf # File(now, doc)
        /\ pdf' = File(now, doc)
        /\ last' = Disturbed(last)
        /\ UNCHANGED <<json, vector_store, now, pc>>

DeleteSource ==
    /\ MayOperate
    /\ pdf.exists
    /\ pdf' = NoFile
    /\ last' = Disturbed(last)
    /\ UNCHANGED <<json, vector_store, now, pc>>

\* The cache files something other than the loader leaves at json_path.
ForeignCaches ==
    {JsonInvalid,
     JsonArray(<<>>),
     JsonArray(<<JsonObject(EmptyDict)>>),
     JsonArray(<<JsonObject([page_content |-> "ID: f2 | VAL: 7",
                             metadata |-> [feature_name |-> "f2", value |-> "7"]]),
                 JsonNumber>>)}

\* the cache file is written by something other than the loader
WriteCache ==
    \E content \in ForeignCaches :
        /\ MayOperate
        /\ json # File(now, content)
        /\ json' = File(now, content)
        /\ last' = Disturbed(last)
        /\ UNCHANGED <<pdf, vector_store, now, pc>>

DeleteCache ==
    /\ MayOperate
    /\ json.exists
    /\ json' = NoFile
    /\ last' = Disturbed(last)
    /\ UNCHANGED <<pdf, vector_store, now, pc>>

Init ==
    /\ pdf = NoFile
    /\ json = NoFile
    /\ vector_store = NoIndex
    /\ now = 1
    /\ pc = "idle"
    /\ last = NoCall

\* the steps of the loader's thread
Loader ==
    \/ SelectFeatures
    \/ PdfMtimeExists
    \/ PdfMtime
    \/ JsonMtimeExists
    \/ JsonMtime
    \/ ValidPdfExists
    \/ ValidJsonExists
    \/ LoadJson
    \/ PdfExists
    \/ ParsePdf
    \/ SaveJson
    \/ BuildIndex
    \/ SimilaritySearch
    \/ NewLoader

Next ==
    \/ Loader
    \/ LoadAndIndex
    \/ Tick
    \/ WriteSource
    \/ DeleteSource
    \/ WriteCache
    \/ DeleteCache

Spec == Init /\ [][Next]_vars

\* The loader alone writes the cache, and the operations come in sequence: the
\* source document changes between the calls of the loader (each change
\* stamped with the current time), loaders are constructed, queries run.
NextOwn ==
    \/ Loader
    \/ Tick
    \/ pc = "idle" /\ WriteSource
    \/ pc = "idle" /\ DeleteSource

SpecOwn == Init /\ [][NextOwn]_vars

\* ------------------------------------------------- parser specification
\* Queries on every source document of at most MaxRows lines, on one page or
\* with the first line on a page of its own, and on the generator's documents.
RECURSIVE RowSeqs(_)
RowSeqs(n) ==
    IF n = 0 THEN {<<>>}
    ELSE RowSeqs(n - 1) \cup
         {Append(rs, r) : rs \in {x \in RowSeqs(n - 1) : Len(x) = n - 1}, r \in RowIds}

Layouts(rs) ==
    {<<HandPage(rs)>>} \cup
    (IF Len(rs) >= 2 THEN {<<HandPage(<<Head(rs)>>), HandPage(Tail(rs))>>} ELSE {})

ParsedDocuments ==
    {Pdf(pages) : pages \in UNION {Layouts(rs) : rs \in RowSeqs(MaxRows)}}
        \cup {GenerateFeaturePdf(seed) : seed \in Seeds}

InitParse ==
    /\ \E doc \in ParsedDocuments : pdf = File(1, doc)
    /\ json = NoFile
    /\ vector_store = NoIndex
    /\ now = 1
    /\ pc = "idle"
    /\ last = NoCall

SpecParse == InitParse /\ [][Loader]_vars

\* ---------------------------------------------------------------- claims
\* what the last call did
Did(e) == \E i \in 1..Len(last.events) : last.events[i] = e
\* a call has just returned or raised
Done == pc = "idle" /\ last.done
\* the call was a query
Queried == Done /\ last.op = "search"
\* the call ran load_and_index
Ran == Done /\ (last.op = "load_and_index" \/ ~last.index.built)
\* the call ran load_and_index, and no other process touched the files
\* meanwhile: last.pdf and last.json are the files all of its steps found
Loaded == Ran /\ last.quiet
\* such a call that was a query
QueryLoaded == Loaded /\ Queried
\* a file's modification time as the validity test reads it
MtimeOrZero(file) == IF file.exists THEN file.mtime ELSE 0
\* the validity of the cache the last call found, as the specification words it
LastCacheFresh ==
    /\ last.pdf.exists
    /\ last.json.exists
    /\ MtimeOrZero(last.json) >= MtimeOrZero(last.pdf)
\* the source document the last call found can be opened and every page extracted
LastPdfParses ==
    /\ last.pdf.exists
    /\ last.pdf.content.readable
    /\ \A i \in 1..Len(last.pdf.content.pages) : last.pdf.content.pages[i].extractable
\* the lines of the source document the last call found, in page order
RECURSIVE RowsOf(_)
RowsOf(pages) == IF pages = <<>> THEN <<>> ELSE Head(pages).rows \o RowsOf(Tail(pages))

\* The records the Python parser gives for each row, written out by hand.
RecordRows ==
    {"full", "short", "no_colon", "reordered", "colon_in_value", "other_key", "padded",
     "generated"}
Record(text, name, cat, desc, val) ==
    [page_content |-> text,
     metadata |-> [source |-> "featurelist.pdf", feature_name |-> name,
                   category |-> cat, description |-> desc, value |-> val]]
ExpectedRecord(row) ==
    LET r == row.id IN
    CASE r = "full" -> Record("ID: f1 | CAT: c1 | DESC: d1 | VAL: 42", "f1", "c1", "d1", "42")
      [] r = "short" -> Record("ID: f2 | VAL: 7", "f2", "", "", "7")
      [] r = "no_colon" -> Record("ID: f3 | c3 | VAL: 5", "f3", "", "", "5")
      [] r = "reordered" -> Record("VAL: 9 | ID: f4", "f4", "", "", "9")
      [] r = "colon_in_value" -> Record("ID: a:b |  CAT : c5 ", "a:b", "c5", "", "0")
      [] r = "other_key" -> Record("XID: f6 | VAL: 2", "Unknown", "", "", "2")
      [] r = "padded" -> Record("\\x0bID: \tf5\\u3000 | \\x85VAL\\x1c:\r8\\xa0\f", "f5", "", "", "8")
      [] r = "generated" ->
            Record(RowLine(row.seed, row.count), FeatName(row.seed, row.count),
                   Choice(row.seed, row.count).cat, Desc(row.seed, row.count),
                   Value(row.seed, row.count))
IsRecordRow(row) == row.id \in RecordRows
ExpectedRecords(rs) ==
    LET recs == SelectSeq(rs, IsRecordRow) IN
    [i \in 1..Len(recs) |-> ExpectedRecord(recs[i])]

\* C1: load_and_index reads the cache exactly when the source document exists,
\* the cache file exists and the cache mtime is >= the source mtime (a missing
\* file counting as 0, equal mtimes as valid); it skips parsing only then and
\* with the cache's records; with the source document present it parses in
\* every other case, also when the valid cache loads zero records.
C1_ParseSkippedOnlyOnValidCache ==
    Loaded =>
        LET cached == LoadFromJson(last.json) IN
        /\ Did("load_json") <=> LastCacheFresh
        /\ (~Did("parse_pdf") /\ last.documents # <<>>) =>
                (LastCacheFresh /\ last.documents = cached)
        /\ (LastCacheFresh /\ cached # <<>>) => ~Did("parse_pdf")
        /\ (last.pdf.exists /\ (~LastCacheFresh \/ cached = <<>>)) => Did("parse_pdf")

\* C1 witness: a cache as old as the source document is used, nothing is parsed
C1_Witness ==
    /\ Loaded
    /\ last.pdf.exists /\ last.json.exists
    /\ last.json.mtime = last.pdf.mtime
    /\ ~Did("parse_pdf")
    /\ last.documents # <<>>

\* C2 as stated: with the source document absent every query returns an empty
\* sequence and does not raise, the index is unbuilt and the cache is not read.
C2_AbsentSourceAlwaysEmpty ==
    (Queried /\ last.quiet /\ ~last.pdf.exists) =>
        /\ last.result = <<>> /\ last.selected = <<>>
        /\ last.raised = "none"
        /\ ~vector_store.built
        /\ ~Did("load_json")

\* C2 amended: with the source document absent and no index built yet by this
\* loader, a query returns an empty sequence and does not raise, whatever the
\* cache file holds; the index stays unbuilt, the cache is neither read nor
\* written.
C2_AbsentSourceEmptyWhenUnbuilt ==
    (QueryLoaded /\ ~last.pdf.exists) =>
        /\ last.result = <<>> /\ last.selected = <<>>
        /\ last.raised = "none"
        /\ ~vector_store.built
        /\ last.events = <<>>
        /\ json = last.json

\* C2 witness: the source document is absent and the cache holds records
C2_Witness ==
    /\ QueryLoaded
    /\ ~last.pdf.exists
    /\ last.json.exists
    /\ LoadFromJson(last.json) # <<>>
    /\ last.result = <<>>

\* the results of the last query are those of a fresh parse of the source
\* document it found: the whole parse, each record once
ResultsOfFreshParse ==
    LET fresh == ExpectedRecords(RowsOf(last.pdf.content.pages)) IN
    /\ vector_store.built
    /\ vector_store.documents = fresh
    /\ Len(last.result) = Min(DefaultK, Len(fresh))
    /\ \A i \in 1..Len(last.result) :
            \E j \in 1..Len(fresh) :
                /\ last.result[i].raw_text = fresh[j].page_content
                /\ last.result[i].metadata = fresh[j].metadata

\* C3 as stated: a query that finds the cache older than the source document
\* parses the source document, and its results are those of that parse.
C3_StaleCacheAlwaysReparsed ==
    (Queried /\ last.quiet /\ MtimeOrZero(last.json) < MtimeOrZero(last.pdf)) =>
        /\ Did("parse_pdf")
        /\ (last.raised = "none" /\ last.result # <<>>) => ResultsOfFreshParse

\* C3 amended: a query of a loader that has no index yet and finds the cache
\* older than the source document parses the source document; when it returns
\* results they are those of that parse.
C3_StaleCacheReparsedWhenUnbuilt ==
    (QueryLoaded /\ MtimeOrZero(last.json) < MtimeOrZero(last.pdf)) =>
        /\ Did("parse_pdf")
        /\ ~Did("load_json")
        /\ (last.raised = "none" /\ last.result # <<>>) => ResultsOfFreshParse

\* C3 witness: the cache holds the records of an older source document, the
\* query returns those of the present one
C3_Witness ==
    /\ QueryLoaded
    /\ last.json.exists /\ last.pdf.exists
    /\ last.json.mtime < last.pdf.mtime
    /\ LoadFromJson(last.json) # <<>>
    /\ last.result # <<>>
    /\ vector_store.documents # LoadFromJson(last.json)

\* a cache element of the shape the cache format gives: an object with a
\* page_content and a metadata member
ElementShaped(item) ==
    /\ item.type = "object"
    /\ {"page_content", "metadata"} \subseteq DOMAIN item.members
\* the cache is corrupt in the sense of claim C4: not JSON or unreadable, not an
\* array, or holding an element of the wrong shape
CorruptAsStated(content) ==
    \/ content.type # "array"
    \/ \E i \in 1..Len(content.items) : ~ElementShaped(content.items[i])
\* the cache is one _load_from_json fails on: not JSON or unreadable, not an
\* array, or holding an element that is not a JSON object
CorruptRejected(content) ==
    \/ content.type # "array"
    \/ \E i \in 1..Len(content.items) : content.items[i].type # "object"
\* an exception that left the last call came from the parse of a source
\* document that cannot be parsed, or from the embedding provider
RaisedByParseOrProvider ==
    \/ last.raised = "none"
    \/ last.raised = "embeddings"
    \/ last.raised \in {"PdfReader", "extract_text"} /\ ~LastPdfParses

\* C4 as stated: a valid-by-mtime cache that is corrupt (invalid JSON,
\* unreadable, or with elements of the wrong shape) gives no records, the
\* source document is parsed, and the cache's fault raises nothing.
C4_CorruptCacheIsAMiss ==
    (Loaded /\ LastCacheFresh /\ CorruptAsStated(last.json.content)) =>
        /\ LoadFromJson(last.json) = <<>>
        /\ Did("load_json") /\ Did("parse_pdf")
        /\ RaisedByParseOrProvider

\* C4 amended: a valid-by-mtime cache that is invalid JSON, unreadable, not an
\* array, or holds an element that is not a JSON object gives no records at all
\* (never those before the bad element), the source document is parsed and the
\* cache's fault raises nothing; an array of objects is loaded whole, an object
\* without page_content or metadata giving a record with "" or {}.
C4_RejectedCacheIsAMiss ==
    /\ (Loaded /\ LastCacheFresh /\ CorruptRejected(last.json.content)) =>
            /\ LoadFromJson(last.json) = <<>>
            /\ Did("load_json") /\ Did("parse_pdf")
            /\ RaisedByParseOrProvider
            /\ Did("build_index") =>
                    vector_store.documents = ExpectedRecords(RowsOf(last.pdf.content.pages))
    /\ (Loaded /\ LastCacheFresh /\ ~CorruptRejected(last.json.content)
            /\ last.json.content.items # <<>>) =>
            /\ ~Did("parse_pdf")
            /\ Len(last.documents) = Len(last.json.content.items)
            /\ \A i \in 1..Len(last.documents) :
                    LET m == last.json.content.items[i].members IN
                    /\ last.documents[i].page_content =
                            (IF "page_content" \in DOMAIN m THEN m.page_content ELSE "")
                    /\ last.documents[i].metadata =
                            (IF "metadata" \in DOMAIN m THEN m.metadata ELSE EmptyDict)

\* C4 witness: the cache holds a good element before a bad one, nothing of it is
\* used and the query answers from the parsed source document
C4_Witness ==
    /\ QueryLoaded /\ LastCacheFresh
    /\ last.json.content.type = "array"
    /\ Len(last.json.content.items) = 2
    /\ ElementShaped(last.json.content.items[1])
    /\ last.json.content.items[2].type # "object"
    /\ Did("parse_pdf")
    /\ last.result # <<>>

\* C5: for a source document that exists, a query raises nothing but a failure
\* of the embedding provider (failures of opening the document, of extracting a
\* page and of the cache are recovered inside the loader).
C5_OnlyProviderFailuresPropagate ==
    (Queried /\ last.quiet /\ last.pdf.exists) => last.raised \in {"none", "embeddings"}

\* save then load gives documents back, and saving them again gives the same file
RoundTrips(documents) ==
    LET saved == SaveToJson(NoFile, documents, 1, "written")
        loaded == LoadFromJson(saved)
    IN  /\ saved.content.type = "array"
        /\ Len(saved.content.items) = Len(documents)
        /\ loaded = documents
        /\ SaveToJson(NoFile, loaded, 1, "written") = saved

C7_OneRecordPerMatchingRow ==
    (Loaded /\ Did("parse_pdf") /\ LastPdfParses) =>
        LET rows == RowsOf(last.pdf.content.pages) IN
        /\ last.documents = ExpectedRecords(rows)
        /\ (\A i \in 1..Len(rows) : rows[i].id \in RecordRows) =>
                Len(last.documents) = Len(rows)

\* C7 witness: a row with a segment without ":" is parsed beside a line that is
\* no row, and gives the only record
C7_Witness ==
    /\ Loaded /\ Did("parse_pdf") /\ LastPdfParses
    /\ \E i \in 1..2 : RowsOf(last.pdf.content.pages) = [j \in 1..2 |->
            IF j = i THEN Line("no_colon") ELSE Line("no_separator")]
    /\ Len(last.documents) = 1
    /\ last.documents[1].metadata.category = ""
    /\ last.documents[1].metadata.value = "5"

FreshRecords == Did("parse_pdf") /\ last.documents # <<>>

\* C9 as stated: load_and_index overwrites the cache exactly when a fresh parse
\* gave a record, the cache then holding the parsed records in parse order; on
\* every other path the cache file is unchanged.
C9_CacheHoldsFreshParse ==
    Loaded =>
        IF FreshRecords
        THEN json = File(last.saved_at, SaveData(last.documents))
        ELSE json = last.json

\* C9 amended: load_and_index calls _save_to_json exactly when a fresh parse
\* gave a record; when the write succeeds the cache holds the parsed records in
\* parse order, when the file cannot be opened it is unchanged, when the dump
\* fails it is left invalid; on every other path the cache file is unchanged.
C9_CacheWrittenOnFreshParse ==
    Loaded =>
        /\ Did("save_json") <=> FreshRecords
        /\ FreshRecords =>
                /\ last.documents = ExpectedRecords(RowsOf(last.pdf.content.pages))
                /\ last.write \in WriteOutcomes
                /\ last.write = "written" =>
                        json = File(last.saved_at, SaveData(last.documents))
                /\ last.write = "open_fails" => json = last.json
                /\ last.write = "dump_fails" => json = File(last.saved_at, JsonInvalid)
        /\ ~FreshRecords => (json = last.json /\ last.write = "none")

\* C9 witness: a fresh parse replaces a cache that held something else
C9_Witness ==
    /\ Loaded /\ FreshRecords
    /\ last.json.exists
    /\ last.write = "written"
    /\ json.content # last.json.content
    /\ LoadFromJson(json) = last.documents

\* the last call built its index from the records of the cache
BuiltFromCache == Loaded /\ Did("load_json") /\ ~Did("parse_pdf") /\ Did("build_index")

\* C10 as stated: when only the loader writes the cache and every change of the
\* source document is stamped with the current time, an index built from cached
\* records holds what a fresh parse of the source document would give.
C10_CachedRecordsAreFresh ==
    BuiltFromCache =>
        /\ LastPdfParses
        /\ vector_store.documents = ExpectedRecords(RowsOf(last.pdf.content.pages))

\* C10 amended: under the same conditions a cache older than the source
\* document is never read, and an index built from a cache strictly newer than
\* the source document holds what a fresh parse of it would give; a cache with
\* exactly the source document's mtime is read as well and may be stale.
C10_NewerCacheIsFresh ==
    /\ (Loaded /\ Did("load_json")) =>
            (last.json.exists /\ last.pdf.exists /\ last.json.mtime >= last.pdf.mtime)
    /\ (BuiltFromCache /\ last.json.mtime > last.pdf.mtime) =>
            /\ LastPdfParses
            /\ vector_store.documents = ExpectedRecords(RowsOf(last.pdf.content.pages))

\* C10 witness: an index is built from a cache newer than the source document
C10_Witness ==
    /\ BuiltFromCache
    /\ last.json.mtime > last.pdf.mtime
    /\ Len(vector_store.documents) >= 2

====
